---- MODULE Spec2Model ----
(***************************************************************************)
(* A model of the tendies export scripts: ServerBuilder.py                 *)
(* (full_functionality) and export_graph_for_serving.py                    *)
(* (minimum_working_example).  Both assemble a graph                       *)
(* placeholder -> preprocessing -> generator -> postprocessing, restore    *)
(* the latest checkpoint, freeze and write the graph, then wrap the frozen *)
(* graph in a SavedModel bundle.                                           *)
(*                                                                         *)
(* Two state machines share the module:                                    *)
(*   Spec / FairSpec  the runs of the scripts against one protobuf_dir and *)
(*                    one serve_dir (filesystem, stdout, position);        *)
(*   PixelSpec        the evaluation of the assembled graph on one PNG     *)
(*                    image, op by op, in exact rational arithmetic.       *)
(***************************************************************************)
EXTENDS Integers, Sequences, FiniteSets, TLC

VARIABLES
    protobuf_dir,      \* FLAGS.protobuf_dir, the same for every run of a behaviour
    files,             \* the frozen graph files on disk: path -> content
    bundles,           \* the SavedModel directories on disk: path -> content
    pc,                \* position of the running script
    flags,             \* FLAGS of the current run (and which script runs)
    graph,             \* the tf.Graph assembled by export_graph (sequence of ops)
    sess,              \* the checkpoint restored into the session ("": none yet)
    output_graph_def,  \* result of convert_variables_to_constants
    graph_def,         \* the GraphDef build_saved_model parsed from the file
    signature_definition, \* the signature build_saved_model declared
    stdout,            \* the lines the run has printed
    trace,             \* history: the stages the current run has executed
    files0,            \* history: files as they were when the run started
    bundles0,          \* history: bundles as they were when the run started
    usedVersions,      \* history: version numbers of all earlier runs
    runs,              \* number of runs started
    px_pc,             \* PixelSpec: "eval" | "done" | "off"
    px_in,             \* PixelSpec: script, image_size, generator and the PNG fed
    px_i,              \* PixelSpec: number of ops of the chain evaluated
    px_t               \* PixelSpec: the tensor flowing out of op px_i

runVars == <<protobuf_dir, files, bundles, pc, flags, graph, sess, output_graph_def,
             graph_def, signature_definition, stdout, trace, files0, bundles0,
             usedVersions, runs>>
pxVars == <<px_pc, px_in, px_i, px_t>>
vars == <<runVars, pxVars>>

----------------------------------------------------------------------------
(* Bounds of the model *)

MaxRuns == 2
MaxVersion == 2
MaxImageSize == 2
MaxDim == 2

(* Program constants *)

DefaultImageSize == 64
Channels == 3

Scripts == {"ServerBuilder", "standalone"}
ModelNames == {"model", "model_v1"}
Versions == 1..MaxVersion
\* what tf.train.latest_checkpoint finds in checkpoint_dir: None, or the path
\* prefix of the newest checkpoint
None == "None"
Checkpoints == {None, "model.ckpt-1", "model.ckpt-2"}
ProtobufDirs == {"protobufs", ""}
serve_dir == "serve"

----------------------------------------------------------------------------
(* Strings and paths *)

Digit == <<"0", "1", "2", "3", "4", "5", "6", "7", "8", "9">>

RECURSIVE StrNat(_)
StrNat(n) == IF n < 10 THEN Digit[n + 1]
             ELSE StrNat(n \div 10) \o Digit[(n % 10) + 1]

\* Python's str() of an int
Str(n) == IF n < 0 THEN "-" \o StrNat(-n) ELSE StrNat(n)

\* os.path.join(logdir, name), as tf.train.write_graph calls it, for a logdir
\* that is empty or does not end in a separator and a relative name
OsPathJoin(logdir, name) == IF logdir = "" THEN name ELSE logdir \o "/" \o name

\* the file name both scripts hand to write_graph
FrozenGraphName_NoVersion(model_name, version) == model_name
FrozenGraphName(model_name, version) == model_name \o "_v" \o Str(version)

\* where export_graph writes
ExportGraphPath(dir, model_name, version) ==
    OsPathJoin(dir, FrozenGraphName(model_name, version))

\* where build_saved_model reads
ReadGraphPath(dir, model_name, version) ==
    dir \o "/" \o model_name \o "_v" \o Str(version)

\* the export directory handed to SavedModelBuilder
BundlePath(dir, version) == dir \o "/" \o Str(version)

----------------------------------------------------------------------------
(* The graph: a chain of ops.  ints holds an op's integer attributes: a   *)
(* shape, a size, an axis, or a scalar constant as numerator, denominator *)

Node(op, name, dtype, ints) == [op |-> op, name |-> name, dtype |-> dtype, ints |-> ints]

input_bytes_placeholder == Node("Placeholder", "input_bytes", "string", <<>>)

preprocess_bitstring_to_float_tensor_NoShift(image_size) ==
    << Node("DecodePng", "", "uint8", <<Channels>>),
       Node("ResizeImages", "", "float32", <<image_size, image_size>>),
       Node("ConvertImageDtype", "", "float32", <<>>),
       Node("RealDiv", "", "", <<255, 2>>),
       Node("Reshape", "", "", <<image_size, image_size, Channels>>),
       Node("ExpandDims", "", "", <<0>>) >>

preprocess_bitstring_to_float_tensor(image_size) ==
    << Node("DecodePng", "", "uint8", <<Channels>>),
       Node("ResizeImages", "", "float32", <<image_size, image_size>>),
       Node("ConvertImageDtype", "", "float32", <<>>),
       Node("RealDiv", "", "", <<255, 2>>),
       Node("Sub", "", "", <<1, 1>>),
       Node("Reshape", "", "", <<image_size, image_size, Channels>>),
       Node("ExpandDims", "", "", <<0>>) >>

postprocess_float_tensor_to_bitstring ==
    << Node("Add", "", "", <<1, 1>>),
       Node("RealDiv", "", "", <<2, 1>>),
       Node("ConvertImageDtype", "", "uint8", <<>>),
       Node("Squeeze", "", "", <<0>>),
       Node("EncodePng", "", "string", <<>>),
       Node("Identity", "output_bytes", "", <<>>) >>

generator_node == Node("Generator", "", "", <<>>)

\* ServerBuilder.export_graph, the graph it assembles
ServerBuilder_graph(image_size) ==
    <<input_bytes_placeholder>>
    \o preprocess_bitstring_to_float_tensor(image_size)
    \o <<generator_node>>
    \o postprocess_float_tensor_to_bitstring

\* export_graph of the standalone script, the graph it assembles
standalone_graph(image_size) ==
    << input_bytes_placeholder,
       Node("Reshape", "", "", <<>>),
       Node("DecodePng", "", "uint8", <<Channels>>),
       Node("ResizeImages", "", "float32", <<image_size, image_size>>),
       Node("ConvertImageDtype", "", "float32", <<>>),
       Node("RealDiv", "", "", <<255, 2>>),
       Node("Sub", "", "", <<1, 1>>),
       Node("SetShape", "", "", <<image_size, image_size, Channels>>),
       Node("ExpandDims", "", "", <<0>>),
       generator_node,
       Node("Squeeze", "", "", <<0>>),
       Node("EncodePng", "", "string", <<>>),
       Node("Identity", "output_bytes", "", <<>>) >>

AssembledGraph(script, image_size) ==
    IF script = "ServerBuilder" THEN ServerBuilder_graph(image_size)
    ELSE standalone_graph(image_size)

----------------------------------------------------------------------------
(* Static dtype and shape of the tensor flowing out of each op, as the     *)
(* framework infers them at graph construction; -1 is an unknown dimension *)

TensorType(dtype, shape) == [dtype |-> dtype, shape |-> shape]

InferStep(node, t) ==
    CASE node.op = "Placeholder" -> TensorType(node.dtype, node.ints)
      [] node.op = "DecodePng" -> TensorType("uint8", <<-1, -1, node.ints[1]>>)
      [] node.op = "ResizeImages" ->
            TensorType("float32", <<node.ints[1], node.ints[2], t.shape[3]>>)
      [] node.op = "ConvertImageDtype" -> TensorType(node.dtype, t.shape)
      [] node.op \in {"Reshape", "SetShape"} -> TensorType(t.dtype, node.ints)
      [] node.op = "ExpandDims" -> TensorType(t.dtype, <<1>> \o t.shape)
      [] node.op = "Squeeze" -> TensorType(t.dtype, Tail(t.shape))
      [] node.op = "EncodePng" -> TensorType("string", <<>>)
      [] OTHER -> t

RECURSIVE InferType(_, _)
InferType(chain, i) ==
    IF i = 0 THEN TensorType("", <<>>)
    ELSE InferStep(chain[i], InferType(chain, i - 1))

\* a graph tensor: the first output of the op of that name
Tensor(name, type) == [name |-> name, dtype |-> type.dtype, shape |-> type.shape]

HasOp(chain, op_name) == \E i \in 1..Len(chain) : chain[i].name = op_name

\* tf.import_graph_def(..., return_elements=[op_name + ":0"])
ImportedTensor(chain, op_name) ==
    LET i == CHOOSE k \in 1..Len(chain) : chain[k].name = op_name
    IN  Tensor(op_name \o ":0", InferType(chain, i))

\* tf.expand_dims(t, 0): a new tensor, of a new op fed by t
expand_dims_Same(t) == t
expand_dims(t) ==
    [name |-> "ExpandDims(" \o t.name \o ")", dtype |-> t.dtype, shape |-> <<1>> \o t.shape]

\* tf.saved_model.utils.build_tensor_info
build_tensor_info(t) == [name |-> t.name, dtype |-> t.dtype, shape |-> t.shape]

PREDICT_METHOD_NAME == "tensorflow/serving/predict"
DEFAULT_SERVING_SIGNATURE_DEF_KEY == "serving_default"
SERVING == "serve"

\* tf.saved_model.signature_def_utils.build_signature_def as build_saved_model calls it
build_signature_def_Renamed(inp, out) ==
    [inputs |-> ("input" :> build_tensor_info(inp)),
     outputs |-> ("output" :> build_tensor_info(out)),
     method_name |-> PREDICT_METHOD_NAME]
build_signature_def(inp, out) ==
    [inputs |-> ("input_bytes" :> build_tensor_info(inp)),
     outputs |-> ("output_bytes" :> build_tensor_info(out)),
     method_name |-> PREDICT_METHOD_NAME]

----------------------------------------------------------------------------
(* The runs *)

NoGraph == <<>>
NoGraphDef == [node |-> <<>>, constants |-> ""]
NoSignature == [inputs |-> <<>>, outputs |-> <<>>, method_name |-> ""]
NoFlags == [script |-> "", model_name |-> "", version |-> 0, checkpoint |-> "",
            image_size |-> 0]
EmptyDir == [saved |-> FALSE, meta_graph |-> NoGraphDef, tags |-> {},
             signature_def_map |-> <<>>]

Put(f, k, v) == [x \in (DOMAIN f) \cup {k} |-> IF x = k THEN v ELSE f[x]]

Raise_Swallow(stage) ==
    /\ pc' = "report"
    /\ trace' = Append(trace, stage)

\* an uncaught exception ends the process; nothing else is touched
Raise(stage) ==
    /\ pc' = "failed"
    /\ trace' = Append(trace, stage)

Init ==
    /\ protobuf_dir \in ProtobufDirs
    /\ files = <<>>
    /\ bundles = <<>>
    /\ pc = "idle"
    /\ flags = NoFlags
    /\ graph = NoGraph
    /\ sess = ""
    /\ output_graph_def = NoGraphDef
    /\ graph_def = NoGraphDef
    /\ signature_definition = NoSignature
    /\ stdout = <<>>
    /\ trace = <<>>
    /\ files0 = <<>>
    /\ bundles0 = <<>>
    /\ usedVersions = {}
    /\ runs = 0
    /\ px_pc = "off"
    /\ px_in = <<>>
    /\ px_i = 0
    /\ px_t = <<>>

\* main / example_usage up to the call of export_graph
StartRun ==
    /\ pc = "idle"
    /\ runs < MaxRuns
    /\ \E script \in Scripts, model_name \in ModelNames, version \in Versions,
          checkpoint \in Checkpoints :
          flags' = [script |-> script, model_name |-> model_name, version |-> version,
                    checkpoint |-> checkpoint, image_size |-> DefaultImageSize]
    /\ runs' = runs + 1
    /\ stdout' = <<"Exporting model to ProtoBuf...">>
    /\ trace' = <<>>
    /\ files0' = files
    /\ bundles0' = bundles
    /\ pc' = "assemble"
    /\ UNCHANGED <<pxVars, protobuf_dir, files, bundles, graph, sess, output_graph_def,
                   graph_def, signature_definition, usedVersions>>

\* export_graph: with graph.as_default(): ... saver = tf.train.Saver()
AssembleGraph ==
    /\ pc = "assemble"
    /\ graph' = AssembledGraph(flags.script, flags.image_size)
    /\ trace' = Append(trace, "assemble")
    /\ pc' = "restore"
    /\ UNCHANGED <<pxVars, protobuf_dir, files, bundles, flags, sess, output_graph_def,
                   graph_def, signature_definition, stdout, files0, bundles0,
                   usedVersions, runs>>

\* saver.restore(sess, None) raises ValueError
RestoreFails_Never(latest_ckpt) == FALSE
RestoreFails(latest_ckpt) == latest_ckpt = None

\* export_graph: initialise, latest_checkpoint, saver.restore
RestoreCheckpoint ==
    /\ pc = "restore"
    /\ LET latest_ckpt == flags.checkpoint
       IN  IF RestoreFails(latest_ckpt)
           THEN /\ Raise("restore")
                /\ UNCHANGED sess
           ELSE /\ sess' = latest_ckpt
                /\ trace' = Append(trace, "restore")
                /\ pc' = "freeze"
    /\ UNCHANGED <<pxVars, protobuf_dir, files, bundles, flags, graph, output_graph_def,
                   graph_def, signature_definition, stdout, files0, bundles0,
                   usedVersions, runs>>

\* export_graph: convert_variables_to_constants
FreezeGraph ==
    /\ pc = "freeze"
    /\ output_graph_def' = [node |-> graph, constants |-> sess]
    /\ trace' = Append(trace, "freeze")
    /\ pc' = "write"
    /\ UNCHANGED <<pxVars, protobuf_dir, files, bundles, flags, graph, sess,
                   graph_def, signature_definition, stdout, files0, bundles0,
                   usedVersions, runs>>

\* export_graph: tf.train.write_graph, which replaces a file that is there
WriteGraph ==
    /\ pc = "write"
    /\ files' = Put(files,
                    ExportGraphPath(protobuf_dir, flags.model_name, flags.version),
                    output_graph_def)
    /\ trace' = Append(trace, "write")
    /\ pc' = "builder"
    /\ UNCHANGED <<pxVars, protobuf_dir, bundles, flags, graph, sess, output_graph_def,
                   graph_def, signature_definition, stdout, files0, bundles0,
                   usedVersions, runs>>

\* SavedModelBuilder.__init__ raises AssertionError on an existing export directory
BuilderRefuses(path) == path \in DOMAIN bundles

\* main's second print, then build_saved_model: SavedModelBuilder(serve_dir/version),
\* which creates the directory
CreateBuilder ==
    /\ pc = "builder"
    /\ stdout' = Append(stdout, "Wrapping ProtoBuf in SavedModel...")
    /\ LET export_dir == BundlePath(serve_dir, flags.version)
       IN  IF BuilderRefuses(export_dir)
           THEN /\ Raise("builder")
                /\ UNCHANGED bundles
           ELSE /\ bundles' = Put(bundles, export_dir, EmptyDir)
                /\ trace' = Append(trace, "builder")
                /\ pc' = "read"
    /\ UNCHANGED <<pxVars, protobuf_dir, files, flags, graph, sess, output_graph_def,
                   graph_def, signature_definition, files0, bundles0,
                   usedVersions, runs>>

\* build_saved_model: tf.gfile.GFile(...).read(), ParseFromString
ReadGraph ==
    /\ pc = "read"
    /\ LET path == ReadGraphPath(protobuf_dir, flags.model_name, flags.version)
       IN  IF path \notin DOMAIN files
           THEN /\ Raise("read")
                /\ UNCHANGED graph_def
           ELSE /\ graph_def' = files[path]
                /\ trace' = Append(trace, "read")
                /\ pc' = "signature"
    /\ UNCHANGED <<pxVars, protobuf_dir, files, bundles, flags, graph, sess, output_graph_def,
                   signature_definition, stdout, files0, bundles0,
                   usedVersions, runs>>

\* build_saved_model: import_graph_def, expand_dims, build_tensor_info,
\* build_signature_def
DeclareSignature ==
    /\ pc = "signature"
    /\ IF HasOp(graph_def.node, "input_bytes") /\ HasOp(graph_def.node, "output_bytes")
       THEN LET inp == ImportedTensor(graph_def.node, "input_bytes")
                out == expand_dims(ImportedTensor(graph_def.node, "output_bytes"))
            IN  /\ signature_definition' = build_signature_def(inp, out)
                /\ trace' = Append(trace, "signature")
                /\ pc' = "save"
       ELSE /\ Raise("signature")
            /\ UNCHANGED signature_definition
    /\ UNCHANGED <<pxVars, protobuf_dir, files, bundles, flags, graph, sess, output_graph_def,
                   graph_def, stdout, files0, bundles0, usedVersions, runs>>

\* build_saved_model: add_meta_graph_and_variables, builder.save()
SaveBundle ==
    /\ pc = "save"
    /\ bundles' = Put(bundles, BundlePath(serve_dir, flags.version),
                      [saved |-> TRUE,
                       meta_graph |-> graph_def,
                       tags |-> {SERVING},
                       signature_def_map |->
                           (DEFAULT_SERVING_SIGNATURE_DEF_KEY :> signature_definition)])
    /\ trace' = Append(trace, "save")
    /\ pc' = "report"
    /\ UNCHANGED <<pxVars, protobuf_dir, files, flags, graph, sess, output_graph_def,
                   graph_def, signature_definition, stdout, files0, bundles0,
                   usedVersions, runs>>

\* main's last prints
ReportSuccess ==
    /\ pc = "report"
    /\ stdout' = stdout \o <<"Exported successfully!", "Run the server with: ...">>
    /\ pc' = "done"
    /\ UNCHANGED <<pxVars, protobuf_dir, files, bundles, flags, graph, sess, output_graph_def,
                   graph_def, signature_definition, trace, files0, bundles0,
                   usedVersions, runs>>

\* the process ends; what it held in memory is gone, the filesystem stays
ExitProcess ==
    /\ pc \in {"done", "failed"}
    /\ pc' = "idle"
    /\ usedVersions' = usedVersions \cup {flags.version}
    /\ flags' = NoFlags
    /\ graph' = NoGraph
    /\ sess' = ""
    /\ output_graph_def' = NoGraphDef
    /\ graph_def' = NoGraphDef
    /\ signature_definition' = NoSignature
    /\ stdout' = <<>>
    /\ trace' = <<>>
    /\ files0' = files
    /\ bundles0' = bundles
    /\ UNCHANGED <<pxVars, protobuf_dir, files, bundles, runs>>

RunStep ==
    \/ AssembleGraph
    \/ RestoreCheckpoint
    \/ FreezeGraph
    \/ WriteGraph
    \/ CreateBuilder
    \/ ReadGraph
    \/ DeclareSignature
    \/ SaveBundle
    \/ ReportSuccess

Next ==
    \/ StartRun
    \/ AssembleGraph
    \/ RestoreCheckpoint
    \/ FreezeGraph
    \/ WriteGraph
    \/ CreateBuilder
    \/ ReadGraph
    \/ DeclareSignature
    \/ SaveBundle
    \/ ReportSuccess
    \/ ExitProcess

Spec == Init /\ [][Next]_vars

\* a started script runs on: single-threaded, synchronous, nothing to wait for
FairSpec == Spec /\ WF_vars(RunStep)

----------------------------------------------------------------------------
(* Evaluation of the graph on one image.  A float is an exact rational     *)
(* <<numerator, denominator>> with a positive denominator; a tensor is its *)
(* dtype, its shape and its elements in row-major order.  A string tensor  *)
(* holds PNG files: records of height, width, channels and 8-bit samples.  *)

RAdd(x, c) == <<x[1] * c[2] + c[1] * x[2], x[2] * c[2]>>
RSub(x, c) == <<x[1] * c[2] - c[1] * x[2], x[2] * c[2]>>
RDiv(x, c) == <<x[1] * c[2], x[2] * c[1]>>
RMul(x, c) == <<x[1] * c[1], x[2] * c[2]>>
RLeq(x, y) == x[1] * y[2] <= y[1] * x[2]
REq(x, y) == x[1] * y[2] = y[1] * x[2]
\* a C cast of a float to an integer: towards zero
Trunc(x) == IF x[1] >= 0 THEN x[1] \div x[2] ELSE -((-x[1]) \div x[2])

Min(a, b) == IF a <= b THEN a ELSE b

RECURSIVE Product(_)
Product(shape) == IF shape = <<>> THEN 1 ELSE Head(shape) * Product(Tail(shape))

Value(dtype, shape, data) == [dtype |-> dtype, shape |-> shape, data |-> data]

\* tf.image.decode_png(contents, channels=3) of an 8-bit grey or RGB file
decode_png(t, channels) ==
    LET png == t.data[1]
    IN  Value("uint8", <<png.height, png.width, channels>>,
              [k \in 1..(png.height * png.width * channels) |->
                  IF png.channels = channels THEN png.data[k]
                  ELSE png.data[((k - 1) \div channels) + 1]])

\* tf.image.resize_images(images, size): bilinear, align_corners=False, on an
\* image whose static height and width are unknown; the result is a float
resize_images(t, out_h, out_w) ==
    LET H == t.shape[1]
        W == t.shape[2]
        C == t.shape[3]
        At(y, x, c) == t.data[(y * W + x) * C + c + 1]
    IN  Value("float32", <<out_h, out_w, C>>,
              [k \in 1..(out_h * out_w * C) |->
                  LET c == (k - 1) % C
                      x == ((k - 1) \div C) % out_w
                      y == (k - 1) \div (C * out_w)
                      top == (y * H) \div out_h
                      yr == (y * H) % out_h
                      bottom == IF yr > 0 THEN Min(top + 1, H - 1) ELSE top
                      left == (x * W) \div out_w
                      xr == (x * W) % out_w
                      right == IF xr > 0 THEN Min(left + 1, W - 1) ELSE left
                      topN == At(top, left, c) * out_w
                                  + (At(top, right, c) - At(top, left, c)) * xr
                      botN == At(bottom, left, c) * out_w
                                  + (At(bottom, right, c) - At(bottom, left, c)) * xr
                  IN  <<topN * out_h + (botN - topN) * yr, out_h * out_w>>])

\* the float to uint8 branch of tf.image.convert_image_dtype:
\* cast(x * (uint8.max + 0.5)), the cast keeping the low 8 bits
FloatToUint8_Scale256(x) == Trunc(RMul(x, <<256, 1>>)) % 256
FloatToUint8(x) == Trunc(RMul(x, <<511, 2>>)) % 256

\* tf.image.convert_image_dtype(image, dtype)
convert_image_dtype(t, dtype) ==
    IF t.dtype = dtype THEN t
    ELSE IF dtype = "uint8"
         THEN Value("uint8", t.shape, [k \in DOMAIN t.data |-> FloatToUint8(t.data[k])])
         ELSE Value("float32", t.shape, [k \in DOMAIN t.data |-> <<t.data[k], 255>>])

\* tf.image.encode_png of an 8-bit image
encode_png(t) ==
    Value("string", <<>>,
          <<[height |-> t.shape[1], width |-> t.shape[2], channels |-> t.shape[3],
             data |-> t.data]>>)

Generators == {"identity", "negate"}

\* the generator: external, float image in [-1,1] to float image in [-1,1]
generator(fn, t) ==
    IF fn = "identity" THEN t
    ELSE Value(t.dtype, t.shape, [k \in DOMAIN t.data |-> <<-t.data[k][1], t.data[k][2]>>])

\* one op of the graph applied to the tensor flowing into it
ApplyOp(node, t, feed, fn) ==
    CASE node.op = "Placeholder" -> Value(node.dtype, node.ints, <<feed>>)
      [] node.op = "DecodePng" -> decode_png(t, node.ints[1])
      [] node.op = "ResizeImages" -> resize_images(t, node.ints[1], node.ints[2])
      [] node.op = "ConvertImageDtype" -> convert_image_dtype(t, node.dtype)
      [] node.op = "RealDiv" ->
            Value(t.dtype, t.shape, [k \in DOMAIN t.data |-> RDiv(t.data[k], node.ints)])
      [] node.op = "Sub" ->
            Value(t.dtype, t.shape, [k \in DOMAIN t.data |-> RSub(t.data[k], node.ints)])
      [] node.op = "Add" ->
            Value(t.dtype, t.shape, [k \in DOMAIN t.data |-> RAdd(t.data[k], node.ints)])
      [] node.op \in {"Reshape", "SetShape"} -> Value(t.dtype, node.ints, t.data)
      [] node.op = "ExpandDims" -> Value(t.dtype, <<1>> \o t.shape, t.data)
      [] node.op = "Squeeze" -> Value(t.dtype, Tail(t.shape), t.data)
      [] node.op = "Generator" -> generator(fn, t)
      [] node.op = "EncodePng" -> encode_png(t)
      [] OTHER -> t

\* whether the op accepts the tensor: the framework raises otherwise
OpAccepts(node, t) ==
    CASE node.op \in {"Reshape", "SetShape"} -> Product(node.ints) = Product(t.shape)
      [] node.op = "Squeeze" -> t.shape # <<>> /\ Head(t.shape) = 1
      [] node.op = "DecodePng" -> t.dtype = "string" /\ t.shape = <<>>
      [] node.op = "EncodePng" -> t.dtype = "uint8" /\ Len(t.shape) = 3
      [] OTHER -> TRUE

----------------------------------------------------------------------------
(* The PNG files fed *)

GreyLevels == {0, 255}
RGBLevels == {<<0, 128, 255>>, <<255, 254, 1>>}
AllLevels == 0..255

GreyPNGs ==
    UNION {{[height |-> h, width |-> w, channels |-> 1, data |-> d] :
               d \in [1..(h * w) -> GreyLevels]} : h \in 1..MaxDim, w \in 1..MaxDim}

RGBPNGs ==
    UNION {{[height |-> h, width |-> w, channels |-> Channels,
             data |-> [k \in 1..(h * w * Channels) |->
                          px[((k - 1) \div Channels) + 1][((k - 1) % Channels) + 1]]] :
               px \in [1..(h * w) -> RGBLevels]} : h \in 1..MaxDim, w \in 1..MaxDim}

OnePixelPNGs ==
    {[height |-> 1, width |-> 1, channels |-> 1, data |-> <<p>>] : p \in AllLevels}

PNGs == GreyPNGs \cup RGBPNGs \cup OnePixelPNGs

PxChain == AssembledGraph(px_in.script, px_in.image_size)

PxOpIndex(op) == CHOOSE i \in 1..Len(PxChain) : PxChain[i].op = op

\* the ops this repository determines: all of ServerBuilder's graph; of the
\* standalone graph, those up to the generator, whose output it encodes as is
PxLast ==
    IF px_in.script = "ServerBuilder" THEN Len(PxChain) ELSE PxOpIndex("Generator") - 1

PixelInit ==
    /\ protobuf_dir = "protobufs"
    /\ files = <<>>
    /\ bundles = <<>>
    /\ pc = "idle"
    /\ flags = NoFlags
    /\ graph = NoGraph
    /\ sess = ""
    /\ output_graph_def = NoGraphDef
    /\ graph_def = NoGraphDef
    /\ signature_definition = NoSignature
    /\ stdout = <<>>
    /\ trace = <<>>
    /\ files0 = <<>>
    /\ bundles0 = <<>>
    /\ usedVersions = {}
    /\ runs = 0
    /\ px_pc = "feed"
    /\ px_in \in [script : Scripts, image_size : 1..MaxImageSize,
                  generator : Generators, png : PNGs]
    /\ px_i = 0
    /\ px_t = Value("", <<>>, <<>>)

EvalNext(stage_after) ==
    LET node == PxChain[px_i + 1]
    IN  /\ px_i < PxLast
        /\ IF OpAccepts(node, px_t)
           THEN /\ px_t' = ApplyOp(node, px_t, px_in.png, px_in.generator)
                /\ px_i' = px_i + 1
                /\ px_pc' = IF px_i + 1 = PxLast THEN "done" ELSE stage_after
           ELSE /\ px_pc' = "error"
                /\ UNCHANGED <<px_i, px_t>>
        /\ UNCHANGED <<runVars, px_in>>

\* sess.run(output_bytes, feed_dict={input_bytes: png}): the placeholder
FeedInput ==
    /\ px_pc = "feed"
    /\ EvalNext("preprocess")

\* the ops from the placeholder to the generator's input
EvalPreprocess ==
    /\ px_pc = "preprocess"
    /\ EvalNext(IF PxChain[px_i + 1].op = "ExpandDims" THEN "generator" ELSE "preprocess")

EvalGenerator ==
    /\ px_pc = "generator"
    /\ EvalNext("postprocess")

\* the ops from the generator's output to output_bytes
EvalPostprocess ==
    /\ px_pc = "postprocess"
    /\ EvalNext("postprocess")

PixelNext ==
    \/ FeedInput
    \/ EvalPreprocess
    \/ EvalGenerator
    \/ EvalPostprocess

PixelSpec == PixelInit /\ [][PixelNext]_vars

----------------------------------------------------------------------------
(* Properties of the evaluation *)

PreprocessDone == px_i > 0 /\ PxChain[px_i].op = "ExpandDims"

\* the 8-bit sample decode_png yields at position k of a 3-channel image
DecodedSample(k) ==
    IF px_in.png.channels = Channels THEN px_in.png.data[k]
    ELSE px_in.png.data[((k - 1) \div Channels) + 1]

SameSize == px_in.png.height = px_in.image_size /\ px_in.png.width = px_in.image_size

\* C4: for every PNG fed, of any width and height, and every image_size, the
\* tensor handed to the generator is a float tensor of shape
\* (1, image_size, image_size, 3) whose elements all lie in [-1, 1]; where the
\* image already has the target size, the sample p becomes p/127.5 - 1.
C4_PreprocessShapeAndRange ==
    PreprocessDone =>
        /\ px_t.dtype = "float32"
        /\ px_t.shape = <<1, px_in.image_size, px_in.image_size, 3>>
        /\ Len(px_t.data) = px_in.image_size * px_in.image_size * 3
        /\ \A k \in DOMAIN px_t.data :
               /\ px_t.data[k][2] > 0
               /\ RLeq(<<-1, 1>>, px_t.data[k])
               /\ RLeq(px_t.data[k], <<1, 1>>)
        /\ SameSize =>
               \A k \in DOMAIN px_t.data :
                   REq(px_t.data[k], <<2 * DecodedSample(k) - 255, 255>>)

C4_Witness ==
    /\ PreprocessDone
    /\ px_in.png.height # px_in.png.width
    /\ px_in.png.width # px_in.image_size
    /\ \E k \in DOMAIN px_t.data : REq(px_t.data[k], <<-1, 1>>)
    /\ \E k \in DOMAIN px_t.data : REq(px_t.data[k], <<1, 1>>)
    /\ \E k \in DOMAIN px_t.data :
           ~REq(px_t.data[k], <<-1, 1>>) /\ ~REq(px_t.data[k], <<1, 1>>)

\* C5: in ServerBuilder's graph, with a generator that returns its input and an
\* image that already has the target size, the PNG that comes out holds at
\* every position the sample p that went in, for every p in 0..255; the batch
\* dimension added before the generator is the one removed after it.
C5_RescaleRoundTrip ==
    (px_in.script = "ServerBuilder" /\ px_in.generator = "identity" /\ SameSize) =>
        /\ (px_i > 0 /\ PxChain[px_i].op = "Generator") =>
               px_t.shape = <<1, px_in.image_size, px_in.image_size, 3>>
        /\ (px_i > 0 /\ PxChain[px_i].op = "Squeeze") =>
               /\ px_t.shape = <<px_in.image_size, px_in.image_size, 3>>
               /\ px_t.dtype = "uint8"
               /\ \A k \in DOMAIN px_t.data : px_t.data[k] = DecodedSample(k)
        /\ px_pc = "done" =>
               /\ px_t.dtype = "string"
               /\ px_t.shape = <<>>
               /\ px_t.data[1].height = px_in.image_size
               /\ px_t.data[1].width = px_in.image_size
               /\ px_t.data[1].channels = 3
               /\ \A k \in DOMAIN px_t.data[1].data :
                      px_t.data[1].data[k] = DecodedSample(k)

C5_Witness ==
    /\ px_pc = "done"
    /\ px_in.script = "ServerBuilder"
    /\ px_in.generator = "identity"
    /\ SameSize
    /\ px_in.png.data = <<127>>
    /\ px_t.data[1].data = <<127, 127, 127>>

----------------------------------------------------------------------------
(* Properties of the runs *)

Running == pc # "idle"
Completed == pc = "done"
FreshVersion == flags.version \notin usedVersions

\* the paths as the interface description names them
NamedFrozenGraph == protobuf_dir \o "/" \o flags.model_name \o "_v" \o Str(flags.version)
NamedBundle == serve_dir \o "/" \o Str(flags.version)

OldFilesKept == \A p \in DOMAIN files0 : p \in DOMAIN files /\ files[p] = files0[p]
OldBundlesKept ==
    \A b \in DOMAIN bundles0 : b \in DOMAIN bundles /\ bundles[b] = bundles0[b]

SavedBundles == {b \in DOMAIN bundles : bundles[b].saved}
SignatureOf(b) == bundles[b].signature_def_map[DEFAULT_SERVING_SIGNATURE_DEF_KEY]

\* C1: a run with a version number no earlier run used leaves every file and
\* bundle that was there as it was, and once it has completed it has added
\* exactly the frozen graph file <protobuf_dir>/<model_name>_v<version> and the
\* bundle directory <serve_dir>/<version>.
C1_NewVersionAddsOnly ==
    (Running /\ FreshVersion) =>
        /\ OldFilesKept
        /\ OldBundlesKept
        /\ Completed =>
            /\ NamedFrozenGraph \notin DOMAIN files0
            /\ DOMAIN files = (DOMAIN files0) \cup {NamedFrozenGraph}
            /\ NamedBundle \notin DOMAIN bundles0
            /\ DOMAIN bundles = (DOMAIN bundles0) \cup {NamedBundle}
            /\ bundles[NamedBundle].saved

C1_Witness ==
    /\ Completed
    /\ FreshVersion
    /\ DOMAIN files0 # {}
    /\ SavedBundles \cap DOMAIN bundles0 # {}

\* C2 as stated: every saved bundle declares exactly the input name
\* "input_bytes" and the output name "output_bytes", bound to the graph tensors
\* input_bytes:0 and output_bytes:0.
C2_BoundToGraphTensors ==
    \A b \in SavedBundles :
        /\ DOMAIN SignatureOf(b).inputs = {"input_bytes"}
        /\ DOMAIN SignatureOf(b).outputs = {"output_bytes"}
        /\ SignatureOf(b).inputs["input_bytes"].name = "input_bytes:0"
        /\ SignatureOf(b).outputs["output_bytes"].name = "output_bytes:0"

\* C2 amended: every saved bundle declares exactly the input name "input_bytes",
\* bound to the graph tensor input_bytes:0, and the output name "output_bytes",
\* bound to the tensor tf.expand_dims makes of the graph tensor output_bytes:0;
\* a prediction signature, the same in every version and both scripts.
C2_SignatureNames ==
    \A b \in SavedBundles :
        /\ DOMAIN SignatureOf(b).inputs = {"input_bytes"}
        /\ DOMAIN SignatureOf(b).outputs = {"output_bytes"}
        /\ SignatureOf(b).inputs["input_bytes"].name = "input_bytes:0"
        /\ SignatureOf(b).outputs["output_bytes"].name = "ExpandDims(output_bytes:0)"
        /\ SignatureOf(b).method_name = PREDICT_METHOD_NAME
        /\ DOMAIN bundles[b].signature_def_map = {DEFAULT_SERVING_SIGNATURE_DEF_KEY}

C2_Witness ==
    \E b1, b2 \in SavedBundles :
        /\ b1 # b2
        /\ bundles[b1].meta_graph.node # bundles[b2].meta_graph.node

\* C3 as stated: in every saved bundle the declared input and the declared
\* output are both string tensors of shape [1].
C3_BothBatched ==
    \A b \in SavedBundles :
        /\ SignatureOf(b).inputs["input_bytes"].dtype = "string"
        /\ SignatureOf(b).inputs["input_bytes"].shape = <<1>>
        /\ SignatureOf(b).outputs["output_bytes"].dtype = "string"
        /\ SignatureOf(b).outputs["output_bytes"].shape = <<1>>

\* C3 amended: in every saved bundle the declared input is a scalar string
\* tensor (shape []), the declared output is a string tensor of shape [1], and
\* no declared input or output is a float tensor.
C3_StringTensors ==
    \A b \in SavedBundles :
        /\ SignatureOf(b).inputs["input_bytes"].dtype = "string"
        /\ SignatureOf(b).inputs["input_bytes"].shape = <<>>
        /\ SignatureOf(b).outputs["output_bytes"].dtype = "string"
        /\ SignatureOf(b).outputs["output_bytes"].shape = <<1>>
        /\ \A k \in DOMAIN SignatureOf(b).inputs :
               SignatureOf(b).inputs[k].dtype # "float32"
        /\ \A k \in DOMAIN SignatureOf(b).outputs :
               SignatureOf(b).outputs[k].dtype # "float32"

C3_Witness ==
    \E b \in SavedBundles :
        /\ bundles[b].meta_graph.node = ServerBuilder_graph(DefaultImageSize)
        /\ SignatureOf(b).outputs["output_bytes"].shape = <<1>>

\* the stage of the pipeline an op belongs to ("" for an op that changes no value)
StageOf(node) ==
    CASE node.op = "Placeholder" -> "placeholder"
      [] node.op = "DecodePng" -> "decode"
      [] node.op = "ResizeImages" -> "resize"
      [] node.op = "RealDiv" /\ node.ints = <<255, 2>> -> "rescale to [-1,1]"
      [] node.op = "Sub" -> "rescale to [-1,1]"
      [] node.op = "ExpandDims" -> "add batch"
      [] node.op = "Generator" -> "generator"
      [] node.op = "Add" -> "rescale to [0,255]"
      [] node.op = "RealDiv" /\ node.ints = <<2, 1>> -> "rescale to [0,255]"
      [] node.op = "ConvertImageDtype" /\ node.dtype = "uint8" -> "rescale to [0,255]"
      [] node.op = "Squeeze" -> "remove batch"
      [] node.op = "EncodePng" -> "encode"
      [] node.op = "Identity" -> node.name
      [] OTHER -> ""

\* the stages of a chain in order, each run of ops of one stage counted once
RECURSIVE Stages(_)
Stages(chain) ==
    IF chain = <<>> THEN <<>>
    ELSE LET n == Len(chain)
             front == Stages(SubSeq(chain, 1, n - 1))
             st == StageOf(chain[n])
         IN  IF st = "" \/ (front # <<>> /\ front[Len(front)] = st) THEN front
             ELSE Append(front, st)

NamedStages ==
    <<"placeholder", "decode", "resize", "rescale to [-1,1]", "add batch", "generator",
      "rescale to [0,255]", "remove batch", "encode", "output_bytes">>

OtherScript(script) == IF script = "ServerBuilder" THEN "standalone" ELSE "ServerBuilder"

\* C6 as stated: whichever script runs, the graph it assembles has the stages
\* placeholder, PNG decode, resize, rescale to [-1,1], add batch, generator,
\* rescale to [0,255], remove batch, PNG encode, output_bytes, the same as the
\* other script assembles for the same flags, and the frozen graph and bundle
\* paths do not depend on the script.
C6_SamePipeline ==
    graph # NoGraph =>
        /\ Stages(graph) = NamedStages
        /\ Stages(graph) = Stages(AssembledGraph(OtherScript(flags.script), flags.image_size))

\* C7 as stated: whatever a run does, every frozen graph file and every bundle
\* directory that existed when the run started is still there with the content
\* it had.
C7_NeverChanged == OldFilesKept /\ OldBundlesKept

\* C8: a run whose checkpoint_dir holds no checkpoint gets no further than the
\* restore step of export_graph: it ends failed there, build_saved_model is
\* never started, "Exported successfully!" is not printed, and the files and
\* bundles are as they were before the run.
C8_NoCheckpointFails ==
    (Running /\ flags.checkpoint = None) =>
        /\ pc \in {"assemble", "restore", "failed"}
        /\ pc = "failed" => trace = <<"assemble", "restore">>
        /\ \A i \in 1..Len(trace) : trace[i] \in {"assemble", "restore"}
        /\ \A i \in 1..Len(stdout) : stdout[i] = "Exporting model to ProtoBuf..."
        /\ files = files0
        /\ bundles = bundles0

C8_Witness ==
    /\ pc = "failed"
    /\ flags.checkpoint = None
    /\ DOMAIN files # {}
    /\ SavedBundles # {}

StageSequence ==
    <<"assemble", "restore", "freeze", "write", "builder", "read", "signature", "save">>

IsPrefix(s, t) == Len(s) <= Len(t) /\ SubSeq(t, 1, Len(s)) = s

Printed(line) == \E i \in 1..Len(stdout) : stdout[i] = line

\* the stages of one run happen at most once each and in the fixed order,
\* packaging only after this run wrote its frozen graph, success only after
\* both artifacts exist
C9_Order ==
    /\ IsPrefix(trace, StageSequence)
    /\ Len(trace) >= 5 =>
           \E p \in DOMAIN files : files[p] = output_graph_def
    /\ Printed("Exported successfully!") =>
           /\ pc = "done"
           /\ trace = StageSequence
           /\ \E p \in DOMAIN files : files[p] = output_graph_def
           /\ \E b \in SavedBundles : bundles[b].meta_graph = output_graph_def

\* C9: every run terminates, completed or failed, after executing each stage
\* at most once in the order assemble, restore, freeze, write, then builder,
\* read, signature, save; packaging starts only after the frozen graph of this
\* run is written; a failed run executes nothing more; success is printed only
\* after both the frozen graph file and the bundle exist.
C9_RunsTerminateInOrder ==
    /\ []C9_Order
    /\ [][pc = "failed" => pc' = "idle"]_vars
    /\ (Running ~> (pc \in {"done", "failed"}))

C9_Witness ==
    /\ pc = "done"
    /\ runs = 2
    /\ trace = StageSequence

\* C10 as stated: export_graph and build_saved_model address the same file
\* <protobuf_dir>/<model_name>_v<version>, different (model_name, version)
\* pairs address different files, and what build_saved_model reads is the
\* frozen graph the same run wrote.
C10_PathIdentifiesPair ==
    /\ \A n1, n2 \in ModelNames, v1, v2 \in Versions :
           (ExportGraphPath(protobuf_dir, n1, v1) = ExportGraphPath(protobuf_dir, n2, v2))
               => (n1 = n2 /\ v1 = v2)
    /\ pc = "read" =>
           /\ ExportGraphPath(protobuf_dir, flags.model_name, flags.version)
                  = ReadGraphPath(protobuf_dir, flags.model_name, flags.version)
           /\ ReadGraphPath(protobuf_dir, flags.model_name, flags.version) = NamedFrozenGraph
           /\ NamedFrozenGraph \in DOMAIN files
           /\ files[NamedFrozenGraph] = output_graph_def

====
